---- MODULE Spec2Model ----
(***************************************************************************)
(* A model of app.py: a CRUD API over two Postgres tables, node and edge.  *)
(* The state is the two tables, the two id sequences behind the serial     *)
(* primary keys, and the last request served: its handler and response.    *)
(* A handler is an operator from the state and the request to an outcome   *)
(* (the tables and sequences after it, and its response); serving a        *)
(* request is one action, since a request is one transaction, committed    *)
(* whole or rolled back whole.  Where requests run at the same time (the   *)
(* last section), a POST /node in flight is a thread of node_post, and     *)
(* each statement it sends to the database is one action.                  *)
(***************************************************************************)
EXTENDS Integers, Sequences, FiniteSets, TLC

VARIABLES nodes, edges, node_id_seq, edge_id_seq, handler, response, node_posts

vars == <<nodes, edges, node_id_seq, edge_id_seq, handler, response, node_posts>>

(***************************************************************************)
(* Bounds of the model.                                                    *)
(***************************************************************************)
\* node ids a request may name, and the last id node_id_seq may hand out
MaxNodeId == 2
\* edge ids a request may name, and the last id edge_id_seq may hand out
MaxEdgeId == 2
\* POST /node requests that run at the same time
MaxRequests == 2

NodeIds == 1..MaxNodeId
EdgeIds == 1..MaxEdgeId
RequestIds == 1..MaxRequests

(***************************************************************************)
(* Python and JSON values.  A str is a sequence of characters.             *)
(***************************************************************************)
None == [t |-> "none"]
JStr(s) == [t |-> "str", v |-> s]
JInt(i) == [t |-> "int", v |-> i]
JBool(b) == [t |-> "bool", v |-> b]

\* Python truthiness, as used by `x or y`
truthy(x) ==
    CASE x.t = "none" -> FALSE
      [] x.t = "str" -> x.v # <<>>
      [] x.t = "int" -> x.v # 0
      [] x.t = "bool" -> x.v

\* Python `x or y`
py_or(x, y) == IF truthy(x) THEN x ELSE y

\* the integer a Python int or bool stands for (bool is a subclass of int)
int_of(x) == IF x.t = "bool" THEN (IF x.v THEN 1 ELSE 0) ELSE x.v

\* Python `x == y` on the values above: True == 1 and False == 0
py_eq(x, y) ==
    IF x.t \in {"int", "bool"} /\ y.t \in {"int", "bool"}
    THEN int_of(x) = int_of(y)
    ELSE x = y

\* isinstance(x, int): true of ints and of bools
isinstance_int(x) == x.t \in {"int", "bool"}

\* request.json.get(key): None when the key is missing
get(json, key) == IF key \in DOMAIN json THEN json[key] ELSE None

(***************************************************************************)
(* bleach.clean on text without allowed tags: < and > are escaped, a bare  *)
(* & is escaped, an & that starts one of the entities below is kept.       *)
(***************************************************************************)
Entities == {<<"l", "t", ";">>, <<"g", "t", ";">>, <<"a", "m", "p", ";">>}

starts_with(s, p) == Len(s) >= Len(p) /\ SubSeq(s, 1, Len(p)) = p

RECURSIVE clean(_)
clean(s) ==
    IF s = <<>> THEN <<>>
    ELSE LET c == Head(s)
             rest == Tail(s)
         IN  CASE c = "<" -> <<"&", "l", "t", ";">> \o clean(rest)
               [] c = ">" -> <<"&", "g", "t", ";">> \o clean(rest)
               [] c = "&" ->
                    IF \E e \in Entities : starts_with(rest, e)
                    THEN <<"&">> \o clean(rest)
                    ELSE <<"&", "a", "m", "p", ";">> \o clean(rest)
               [] OTHER -> <<c>> \o clean(rest)

\* clean(request.json.get(key) or '') or None
cleaned(json, key) ==
    py_or(JStr(clean(py_or(get(json, key), JStr(<<>>)).v)), None)

(***************************************************************************)
(* The schema: class Node and class Edge, as Postgres enforces them.       *)
(* A node row is [name, color]; an edge row is [sid, tid, name, color]     *)
(* with sid and tid integers.  Both tables map the primary key to the row. *)
(***************************************************************************)
\* db.String(80)
NameMaxLen == 80
\* db.String(7)
ColorMaxLen == 7

\* a varchar(n) column takes NULL or at most n characters
fits(v, n) == v = None \/ Len(v.v) <= n

name_unique_off(table, id, name) == TRUE

\* unique=True on name: no other row holds the same name; NULLs never clash
name_unique(table, id, name) ==
    name = None \/ \A i \in DOMAIN table \ {id} : table[i].name # name

fk_sid_only(ns, sid, tid) == sid \in DOMAIN ns

\* ForeignKey('node.id') on sid and on tid
fk_ok(ns, sid, tid) == sid \in DOMAIN ns /\ tid \in DOMAIN ns

check_off(sid, tid) == TRUE

\* CheckConstraint('sid != tid')
check_ok(sid, tid) == sid # tid

cascade_sid_only(es, id) == [e \in {x \in DOMAIN es : es[x].sid # id} |-> es[e]]

\* ondelete='CASCADE': the edge rows that survive the delete of node id
cascade(es, id) ==
    [e \in {x \in DOMAIN es : es[x].sid # id /\ es[x].tid # id} |-> es[e]]

\* errors Postgres raises before the statement runs (no row is built, so a
\* serial default is not evaluated): the others are raised while it runs
EarlyErrors == {"value_too_long", "datatype_mismatch", "invalid_text"}

DigitChars == <<"0", "1", "2", "3", "4", "5", "6", "7", "8", "9">>

is_numeric(s) ==
    s # <<>> /\ \A i \in 1..Len(s) : \E d \in 1..10 : DigitChars[d] = s[i]

RECURSIVE numeric_value(_)
numeric_value(s) ==
    IF s = <<>> THEN 0
    ELSE LET last == s[Len(s)]
             d == CHOOSE k \in 1..10 : DigitChars[k] = last
         IN  numeric_value(SubSeq(s, 1, Len(s) - 1)) * 10 + (d - 1)

\* what an Integer column makes of a bound Python value: an int as it is, a
\* str as a literal Postgres parses, None as NULL; a bool is a type error
int_column_error(v) ==
    CASE v.t = "bool" -> "datatype_mismatch"
      [] v.t = "str" /\ ~is_numeric(v.v) -> "invalid_text"
      [] OTHER -> "ok"

int_column(v) ==
    CASE v.t = "int" -> JInt(v.v)
      [] v.t = "str" -> JInt(numeric_value(v.v))
      [] OTHER -> None

\* INSERT INTO node: the error raised, or "ok"
node_insert_error(ns, id, name, color) ==
    CASE ~fits(name, NameMaxLen) \/ ~fits(color, ColorMaxLen) -> "value_too_long"
      [] id \in DOMAIN ns -> "node_pkey"
      [] ~name_unique(ns, id, name) -> "node_name_unique"
      [] OTHER -> "ok"

\* UPDATE node SET name, color WHERE id
node_update_error(ns, id, name, color) ==
    CASE ~fits(name, NameMaxLen) \/ ~fits(color, ColorMaxLen) -> "value_too_long"
      [] ~name_unique(ns, id, name) -> "node_name_unique"
      [] OTHER -> "ok"

\* INSERT INTO edge, sid and tid as the Python values bound to the statement
edge_insert_error(ns, es, id, sid, tid, name, color) ==
    CASE int_column_error(sid) # "ok" -> int_column_error(sid)
      [] int_column_error(tid) # "ok" -> int_column_error(tid)
      [] ~fits(name, NameMaxLen) \/ ~fits(color, ColorMaxLen) -> "value_too_long"
      [] int_column(sid) = None \/ int_column(tid) = None -> "not_null"
      [] ~check_ok(int_column(sid).v, int_column(tid).v) -> "edge_check"
      [] id \in DOMAIN es -> "edge_pkey"
      [] ~name_unique(es, id, name) -> "edge_name_unique"
      [] ~fk_ok(ns, int_column(sid).v, int_column(tid).v) -> "edge_fkey"
      [] OTHER -> "ok"

\* UPDATE edge SET ... WHERE id, sid and tid as integers
edge_update_error(ns, es, id, sid, tid, name, color) ==
    CASE ~fits(name, NameMaxLen) \/ ~fits(color, ColorMaxLen) -> "value_too_long"
      [] ~check_ok(sid, tid) -> "edge_check"
      [] ~name_unique(es, id, name) -> "edge_name_unique"
      [] ~fk_ok(ns, sid, tid) -> "edge_fkey"
      [] OTHER -> "ok"

\* a table with one row added or replaced
put_row(table, id, row) ==
    [i \in DOMAIN table \cup {id} |-> IF i = id THEN row ELSE table[i]]

\* a table with one row removed
delete_row(table, id) == [i \in DOMAIN table \ {id} |-> table[i]]

(***************************************************************************)
(* Responses: a status and a body.                                         *)
(***************************************************************************)
\* get_graph(): every node and every edge
get_graph(ns, es) ==
    [nodes |-> {[id |-> i, name |-> ns[i].name, _color |-> ns[i].color] :
                    i \in DOMAIN ns},
     edges |-> {[id |-> i, sid |-> es[i].sid, tid |-> es[i].tid,
                 name |-> es[i].name, _color |-> es[i].color] :
                    i \in DOMAIN es}]

\* a response body that is get_graph() of the tables the request leaves
Graph == [t |-> "graph"]

Text(msg) == [t |-> "text", v |-> msg]

Response(status, body) == [status |-> status, body |-> body]

\* except Exception as e: return f'Sorry, there was an exception: {e}', 501
exception(e) == Response(501, Text(e))

(***************************************************************************)
(* Outcomes of a handler: the tables and sequences it leaves, its response. *)
(***************************************************************************)
\* the database a request finds: the tables and the sequences
database ==
    [nodes |-> nodes, edges |-> edges, node_id_seq |-> node_id_seq,
     edge_id_seq |-> edge_id_seq]

\* nothing written to database d: a return before any write, or a rolled
\* back transaction
returned_in(d, resp) ==
    [nodes |-> d.nodes, edges |-> d.edges, node_id_seq |-> d.node_id_seq,
     edge_id_seq |-> d.edge_id_seq, response |-> resp]

returned(resp) == returned_in(database, resp)

node_commit_unrolled(d, error, id, row, status) ==
    [returned_in(d, IF error = "ok" THEN Response(status, Graph) ELSE exception(error))
        EXCEPT !.nodes = put_row(d.nodes, id, row)]

\* db.session.commit() of an INSERT or UPDATE of node id that raised `error`
\* (or "ok"), then return get_graph(), status
node_commit_in(d, error, id, row, status) ==
    IF error = "ok"
    THEN [returned_in(d, Response(status, Graph))
            EXCEPT !.nodes = put_row(d.nodes, id, row)]
    ELSE returned_in(d, exception(error))

node_commit(error, id, row, status) == node_commit_in(database, error, id, row, status)

edge_commit_in(d, error, id, row, status) ==
    IF error = "ok"
    THEN [returned_in(d, Response(status, Graph))
            EXCEPT !.edges = put_row(d.edges, id, row)]
    ELSE returned_in(d, exception(error))

edge_commit(error, id, row, status) == edge_commit_in(database, error, id, row, status)

\* nextval of a serial primary key: taken by every INSERT that runs
nextval(seq, error) == IF error \in EarlyErrors THEN seq ELSE seq + 1

(***************************************************************************)
(* Node handlers.                                                          *)
(***************************************************************************)
node_existing_unchecked(ns, name) == {}

\* db.session.query(Node).filter_by(name=name).first(): the ids it can
\* return; filter_by(name=None) is rendered as "name IS NULL"
node_existing(ns, name) == {i \in DOMAIN ns : ns[i].name = name}

updated_always(json, key, old) == cleaned(json, key)

updated_unsanitized(json, key, old) ==
    IF key \in DOMAIN json THEN py_or(get(json, key), None) ELSE old

\* PUT on an existing row: a field is set only if its key is in the body
updated(json, key, old) == IF key \in DOMAIN json THEN cleaned(json, key) ELSE old

node_get(id) ==
    IF id \in DOMAIN nodes
    THEN returned(Response(200, [t |-> "node", id |-> id, name |-> nodes[id].name,
                                 _color |-> nodes[id].color]))
    ELSE returned(Response(404, Text("no node")))

node_post(json) ==
    LET name == cleaned(json, "name")
        color == cleaned(json, "_color")
        error == node_insert_error(nodes, node_id_seq, name, color)
    IN  IF node_existing(nodes, name) # {}
        THEN returned(Response(400, Text("node name exists")))
        ELSE [node_commit(error, node_id_seq, [name |-> name, color |-> color], 201)
                EXCEPT !.node_id_seq = nextval(node_id_seq, error)]

\* PUT /api/v0/node/{id}, served on database d
node_put_in(d, id, json) ==
    IF id \in DOMAIN d.nodes
    THEN LET name == updated(json, "name", d.nodes[id].name)
             color == updated(json, "_color", d.nodes[id].color)
             error == node_update_error(d.nodes, id, name, color)
         IN  node_commit_in(d, error, id, [name |-> name, color |-> color], 200)
    ELSE LET name == cleaned(json, "name")
             color == cleaned(json, "_color")
             error == node_insert_error(d.nodes, id, name, color)
         IN  node_commit_in(d, error, id, [name |-> name, color |-> color], 201)

node_put(id, json) == node_put_in(database, id, json)

node_delete(id) ==
    IF id \in DOMAIN nodes
    THEN [returned(Response(200, Graph))
            EXCEPT !.nodes = delete_row(nodes, id), !.edges = cascade(edges, id)]
    ELSE returned(Response(404, Text("no node, perhaps deleted")))

(***************************************************************************)
(* Edge handlers.                                                          *)
(***************************************************************************)
\* PUT on an existing row: sid or tid is set only if its key is in the body
\* and holds an int; the flush writes it only if it differs (==) from the
\* loaded value
assigned(json, key, old) ==
    IF key \in DOMAIN json /\ isinstance_int(json[key]) /\ ~py_eq(json[key], JInt(old))
    THEN json[key]
    ELSE JInt(old)

edge_get(id) ==
    IF id \in DOMAIN edges
    THEN returned(Response(200, [t |-> "edge", id |-> id, sid |-> edges[id].sid,
                                 tid |-> edges[id].tid, name |-> edges[id].name,
                                 _color |-> edges[id].color]))
    ELSE returned(Response(404, Text("no edge")))

edge_post(json) ==
    LET sid == get(json, "sid")
        tid == get(json, "tid")
        name == cleaned(json, "name")
        color == cleaned(json, "_color")
        error == edge_insert_error(nodes, edges, edge_id_seq, sid, tid, name, color)
    IN  [edge_commit(error, edge_id_seq,
                     [sid |-> int_column(sid).v, tid |-> int_column(tid).v,
                      name |-> name, color |-> color], 201)
           EXCEPT !.edge_id_seq = nextval(edge_id_seq, error)]

\* PUT /api/v0/edge/{id}, served on database d
edge_put_in(d, id, json) ==
    IF id \in DOMAIN d.edges
    THEN LET sid == assigned(json, "sid", d.edges[id].sid)
             tid == assigned(json, "tid", d.edges[id].tid)
             name == updated(json, "name", d.edges[id].name)
             color == updated(json, "_color", d.edges[id].color)
             error ==
                 IF sid.t = "bool" \/ tid.t = "bool" THEN "datatype_mismatch"
                 ELSE edge_update_error(d.nodes, d.edges, id, sid.v, tid.v, name, color)
         IN  edge_commit_in(d, error, id, [sid |-> sid.v, tid |-> tid.v,
                                           name |-> name, color |-> color], 200)
    ELSE IF isinstance_int(get(json, "sid")) /\ isinstance_int(get(json, "tid"))
    THEN LET sid == json["sid"]
             tid == json["tid"]
             name == cleaned(json, "name")
             color == cleaned(json, "_color")
             error == edge_insert_error(d.nodes, d.edges, id, sid, tid, name, color)
         IN  edge_commit_in(d, error, id, [sid |-> sid.v, tid |-> tid.v,
                                           name |-> name, color |-> color], 201)
    ELSE returned_in(d, Response(400, Text("sid and tid must be integers")))

edge_put(id, json) == edge_put_in(database, id, json)

edge_delete(id) ==
    IF id \in DOMAIN edges
    THEN [returned(Response(200, Graph)) EXCEPT !.edges = delete_row(edges, id)]
    ELSE returned(Response(404, Text("no edge, perhaps deleted")))

\* GET /api/v0/graph
graph == returned(Response(200, Graph))

(***************************************************************************)
(* Requests.  A body is a JSON object: a function from the keys it holds.  *)
(***************************************************************************)
\* the JSON objects over some of the keys, each key with one of its values
objects(values) ==
    UNION {{b \in [K -> UNION {values[k] : k \in DOMAIN values}] :
               \A k \in K : b[k] \in values[k]} : K \in SUBSET DOMAIN values}

NodeNames == {JStr(<<>>), JStr(<<"a">>), JStr(<<"<">>), JStr(<<"&", "l", "t", ";">>)}
NodeColors == {JStr(<<"#">>), JStr(<<"<", "<">>)}
EdgeNames == {JStr(<<"e">>)}
EdgeColors == {JStr(<<"#">>)}
\* NodeIds and one id more: where NodeIds bounds the nodes, the id of no node
MoreNodeIds == 1..(MaxNodeId + 1)

IntEnds(ids) == {JInt(i) : i \in ids}
OtherEnds == {JBool(TRUE), JStr(<<"1">>)}

\* node bodies: every name with every color, each present or not
NodeBodies == objects([name |-> NodeNames, _color |-> NodeColors])
\* the empty body alone
NodeBodiesPlain == objects([name |-> {}, _color |-> {}])
\* the empty body and a body with a name
NodeBodiesFew == objects([name |-> {JStr(<<"a">>)}, _color |-> {}])
\* edge bodies: integer ends with every name and color, and ends that are
\* no Python int (or are a bool) without them
EdgeBodies ==
    objects([sid |-> IntEnds(MoreNodeIds), tid |-> IntEnds(MoreNodeIds),
             name |-> EdgeNames, _color |-> EdgeColors])
        \cup objects([sid |-> IntEnds(NodeIds) \cup OtherEnds,
                      tid |-> IntEnds(NodeIds) \cup OtherEnds])
\* edge bodies with both ends integers and nothing else
EdgeBodiesPlain(ids) == [{"sid", "tid"} -> IntEnds(ids)]

(***************************************************************************)
(* Serving a request: the handler's outcome becomes the state.             *)
(***************************************************************************)
Serve(name, out) ==
    /\ node_posts' = node_posts
    /\ handler' = name
    /\ nodes' = out.nodes
    /\ edges' = out.edges
    /\ node_id_seq' = out.node_id_seq
    /\ edge_id_seq' = out.edge_id_seq
    /\ response' = out.response

GetGraph == Serve("graph", graph)
NodeGet(ids) == \E id \in ids : Serve("node_get", node_get(id))
NodePost(ids, bodies) ==
    \E json \in bodies : node_id_seq \in ids /\ Serve("node_post", node_post(json))
NodePut(ids, bodies) ==
    \E id \in ids, json \in bodies : Serve("node_put", node_put(id, json))
NodeDelete(ids) == \E id \in ids : Serve("node_delete", node_delete(id))
EdgeGet == \E id \in EdgeIds : Serve("edge_get", edge_get(id))
EdgePost(bodies) ==
    \E json \in bodies : edge_id_seq \in EdgeIds /\ Serve("edge_post", edge_post(json))
EdgePut(bodies) ==
    \E id \in EdgeIds, json \in bodies : Serve("edge_put", edge_put(id, json))
EdgeDelete == \E id \in EdgeIds : Serve("edge_delete", edge_delete(id))

\* a request that has not arrived
Idle == [pc |-> "idle", json |-> <<>>, id |-> 0, status |-> 0]

\* an empty database (db.create_all()), its sequences at 1, nothing served
Init ==
    /\ node_posts = [r \in RequestIds |-> Idle]
    /\ nodes = <<>>
    /\ edges = <<>>
    /\ node_id_seq = 1
    /\ edge_id_seq = 1
    /\ handler = "none"
    /\ response = Response(200, Text("welcome"))

\* every route; node requests with any node body, edge requests plain
Next ==
    \/ GetGraph
    \/ NodeGet(NodeIds)
    \/ NodePost(NodeIds, NodeBodies)
    \/ NodePut(NodeIds, NodeBodies)
    \/ NodeDelete(NodeIds)
    \/ EdgeGet
    \/ EdgePost(EdgeBodiesPlain(NodeIds))
    \/ EdgePut(EdgeBodiesPlain(NodeIds))
    \/ EdgeDelete

Spec == Init /\ [][Next]_vars

\* every route; edge requests with any edge body, node requests plain
NextEdge ==
    \/ GetGraph
    \/ NodeGet(NodeIds)
    \/ NodePost(NodeIds, NodeBodiesPlain)
    \/ NodePut(NodeIds, NodeBodiesPlain)
    \/ NodeDelete(NodeIds)
    \/ EdgeGet
    \/ EdgePost(EdgeBodies)
    \/ EdgePut(EdgeBodies)
    \/ EdgeDelete

SpecEdge == Init /\ [][NextEdge]_vars

\* every route on one more node id; node requests with a name or none, edge
\* requests plain
NextPlain ==
    \/ GetGraph
    \/ NodeGet(MoreNodeIds)
    \/ NodePost(MoreNodeIds, NodeBodiesFew)
    \/ NodePut(MoreNodeIds, NodeBodiesFew)
    \/ NodeDelete(MoreNodeIds)
    \/ EdgeGet
    \/ EdgePost(EdgeBodiesPlain(MoreNodeIds))
    \/ EdgePut(EdgeBodiesPlain(MoreNodeIds))
    \/ EdgeDelete

SpecPlain == Init /\ [][NextPlain]_vars

\* the upserts and the deletes, with any body: the sequences stay at 1, and
\* every table a POST can build is built by a PUT to the id it would take
NextPut ==
    \/ NodePut(NodeIds, NodeBodies)
    \/ NodeDelete(NodeIds)
    \/ EdgePut(EdgeBodies)
    \/ EdgeDelete

SpecPut == Init /\ [][NextPut]_vars

(***************************************************************************)
(* POST /node requests served at the same time, each in a thread of        *)
(* node_post with a session, and so a transaction, of its own.  A thread   *)
(* sends three statements: the SELECT of line 257, then, both inside       *)
(* db.session.commit(), the INSERT and the COMMIT.  A SELECT reads the     *)
(* committed rows.                                                         *)
(***************************************************************************)
\* the bodies of the requests: one of two names
PostBodies == [{"name"} -> {JStr(<<"a">>), JStr(<<"b">>)}]

\* the request is in flight, with this body
Receive(r) ==
    /\ node_posts[r].pc = "idle"
    /\ \E json \in PostBodies :
          node_posts' = [node_posts EXCEPT ![r] = [@ EXCEPT !.pc = "query", !.json = json]]
    /\ UNCHANGED <<nodes, edges, node_id_seq, edge_id_seq, handler, response>>

\* node_existing = ...filter_by(name=name).first(); if node_existing: return 400
Query(r) ==
    /\ node_posts[r].pc = "query"
    /\ node_posts' =
          [node_posts EXCEPT ![r] =
              IF node_existing(nodes, cleaned(@.json, "name")) # {}
              THEN [@ EXCEPT !.pc = "done", !.status = 400]
              ELSE [@ EXCEPT !.pc = "insert"]]
    /\ UNCHANGED <<nodes, edges, node_id_seq, edge_id_seq, handler, response>>

insert_never_waits(r) == FALSE

\* the unique index on name makes an INSERT wait for the transaction of a
\* row with the same name that is inserted and not yet committed
insert_waits(r) ==
    \E q \in RequestIds \ {r} :
        /\ node_posts[q].pc = "commit"
        /\ cleaned(node_posts[q].json, "name") # None
        /\ cleaned(node_posts[q].json, "name") = cleaned(node_posts[r].json, "name")

\* the INSERT of db.session.commit(): it draws the id and is checked against
\* the committed rows; an error ends the request, except: return 501
Insert(r) ==
    /\ node_posts[r].pc = "insert"
    /\ ~insert_waits(r)
    /\ LET name == cleaned(node_posts[r].json, "name")
           color == cleaned(node_posts[r].json, "_color")
           error == node_insert_error(nodes, node_id_seq, name, color)
       IN  /\ node_id_seq' = nextval(node_id_seq, error)
           /\ node_posts' =
                 [node_posts EXCEPT ![r] =
                     IF error = "ok"
                     THEN [@ EXCEPT !.pc = "commit", !.id = node_id_seq]
                     ELSE [@ EXCEPT !.pc = "done", !.status = 501]]
    /\ UNCHANGED <<nodes, edges, edge_id_seq, handler, response>>

\* the COMMIT of db.session.commit(), then return get_graph(), 201
Commit(r) ==
    /\ node_posts[r].pc = "commit"
    /\ nodes' = put_row(nodes, node_posts[r].id,
                        [name |-> cleaned(node_posts[r].json, "name"),
                         color |-> cleaned(node_posts[r].json, "_color")])
    /\ node_posts' = [node_posts EXCEPT ![r] = [@ EXCEPT !.pc = "done", !.status = 201]]
    /\ UNCHANGED <<edges, node_id_seq, edge_id_seq, handler, response>>

\* no request has arrived yet
Before == \A r \in RequestIds : node_posts[r].pc = "idle"

\* nodes are put and deleted, one request at a time; then the POST /node
\* requests arrive and run, their statements interleaved, nothing else served
NextPosts ==
    \/ Before /\ NodePut(NodeIds, NodeBodiesFew)
    \/ Before /\ NodeDelete(NodeIds)
    \/ \E r \in RequestIds : Receive(r)
    \/ \E r \in RequestIds : Query(r)
    \/ \E r \in RequestIds : Insert(r)
    \/ \E r \in RequestIds : Commit(r)

SpecPosts == Init /\ [][NextPosts]_vars

(***************************************************************************)
(* Properties.  A property of a handler is stated of its outcome on every  *)
(* request, in every reachable state.                                      *)
(***************************************************************************)
\* the request was refused and wrote nothing
rejected(out) ==
    /\ out.response.status \notin {200, 201}
    /\ out.nodes = nodes
    /\ out.edges = edges

\* the body gives sid or tid as an integer that is the id of no stored node
names_missing_node(json) ==
    \E k \in {"sid", "tid"} :
        k \in DOMAIN json /\ json[k].t = "int" /\ json[k].v \notin DOMAIN nodes

\* the end an edge would have after a PUT of the body to it
end_after(json, key, old) ==
    IF key \in DOMAIN json /\ json[key].t = "int" THEN json[key].v ELSE old

\* C1: every stored edge's sid and tid are ids of stored nodes, and an edge
\* POST or PUT (creating or updating) whose body gives a missing node as sid
\* or tid is rejected and writes nothing.
C1_EdgesReferenceNodes ==
    /\ \A e \in DOMAIN edges :
         edges[e].sid \in DOMAIN nodes /\ edges[e].tid \in DOMAIN nodes
    /\ \A json \in EdgeBodies :
         names_missing_node(json) =>
            /\ rejected(edge_post(json))
            /\ \A id \in EdgeIds : rejected(edge_put(id, json))

\* an edge is stored and a PUT to an edge was refused by the foreign key
C1_Witness ==
    /\ handler = "edge_put"
    /\ response = exception("edge_fkey")
    /\ DOMAIN edges # {}

\* C2: no stored edge has sid = tid: creating an edge with sid = tid (POST,
\* or PUT to an absent id) is rejected, and so is a PUT to a stored edge
\* after which its sid would equal its tid.
C2_NoSelfLoops ==
    /\ \A e \in DOMAIN edges : edges[e].sid # edges[e].tid
    /\ \A json \in EdgeBodies :
         /\ ({"sid", "tid"} \subseteq DOMAIN json
                /\ json["sid"].t = "int" /\ json["sid"] = json["tid"]) =>
               /\ rejected(edge_post(json))
               /\ \A id \in EdgeIds \ DOMAIN edges : rejected(edge_put(id, json))
         /\ \A id \in DOMAIN edges :
               end_after(json, "sid", edges[id].sid)
                    = end_after(json, "tid", edges[id].tid)
               => rejected(edge_put(id, json))

\* an edge is stored and a PUT to an edge was refused by the check constraint
C2_Witness ==
    /\ handler = "edge_put"
    /\ response = exception("edge_check")
    /\ DOMAIN edges = EdgeIds

\* C3: DELETE of a stored node returns 200 and removes that node and every
\* edge whose sid or tid is its id; every other node and every other edge
\* stays stored, unchanged.
C3_DeleteCascades ==
    \A id \in DOMAIN nodes :
        LET out == node_delete(id)
        IN  /\ out.response = Response(200, Graph)
            /\ DOMAIN out.nodes = DOMAIN nodes \ {id}
            /\ \A n \in DOMAIN out.nodes : out.nodes[n] = nodes[n]
            /\ DOMAIN out.edges =
                 {e \in DOMAIN edges : edges[e].sid # id /\ edges[e].tid # id}
            /\ \A e \in DOMAIN out.edges : out.edges[e] = edges[e]

\* a node was deleted; the nodes left, one of them named, still hold an edge
C3_Witness ==
    /\ handler = "node_delete"
    /\ response = Response(200, Graph)
    /\ Cardinality(DOMAIN nodes) = MaxNodeId
    /\ Cardinality(DOMAIN edges) = 1
    /\ \E n \in DOMAIN nodes : nodes[n].name # None

\* the name is absent, or held by no stored node
name_free(name) == name = None \/ \A i \in DOMAIN nodes : nodes[i].name # name

\* the sanitized name and color fit their columns
fits_columns(name, color) ==
    /\ name = None \/ Len(name.v) <= NameMaxLen
    /\ color = None \/ Len(color.v) <= ColorMaxLen

\* the tables of `out` are the stored ones with node id set to row
node_written(out, id, row) ==
    /\ DOMAIN out.nodes = DOMAIN nodes \cup {id}
    /\ out.nodes[id] = row
    /\ \A n \in DOMAIN nodes \ {id} : out.nodes[n] = nodes[n]
    /\ out.edges = edges

\* C4: POST /node with a valid body whose name no stored node holds returns
\* 201, adds exactly one node, under an id no node had, with the sanitized
\* name and color.
C4_Claim ==
    \A json \in NodeBodies :
        LET name == cleaned(json, "name")
            color == cleaned(json, "_color")
            out == node_post(json)
        IN  (name # None /\ name_free(name) /\ fits_columns(name, color)) =>
               /\ out.response = Response(201, Graph)
               /\ Cardinality(DOMAIN out.nodes) = Cardinality(DOMAIN nodes) + 1
               /\ \E id \in DOMAIN out.nodes \ DOMAIN nodes :
                     node_written(out, id, [name |-> name, color |-> color])

\* C5: POST /node with the name of a stored node returns 400 and leaves the
\* nodes and the edges as they were.
C5_TakenNameRejected ==
    \A json \in NodeBodies :
        ("name" \in DOMAIN json /\ \E i \in DOMAIN nodes : nodes[i].name = json["name"]) =>
            LET out == node_post(json)
            IN  /\ out.response.status = 400
                /\ out.nodes = nodes
                /\ out.edges = edges

\* a POST was refused for its name while every stored node has a name
C5_Witness ==
    /\ handler = "node_post"
    /\ response = Response(400, Text("node name exists"))
    /\ DOMAIN nodes # {}
    /\ \A i \in DOMAIN nodes : nodes[i].name # None

\* C6, as claimed: PUT /node/{id} for an id no stored node has creates the
\* node with that id and returns 201, whatever the body (here: every body
\* whose fields fit their columns), a name another node holds included.
C6_Claim ==
    \A id \in NodeIds \ DOMAIN nodes, json \in NodeBodies :
        LET out == node_put(id, json)
        IN  fits_columns(cleaned(json, "name"), cleaned(json, "_color")) =>
                out.response.status = 201 /\ id \in DOMAIN out.nodes

\* C6, amended: PUT /node/{id} for an id no stored node has returns 201 and
\* creates the node with that id and the sanitized name and color, when the
\* sanitized name is absent or held by no stored node and name and color fit
\* their columns; otherwise it returns 501 and stores nothing.
C6_PutCreates ==
    \A id \in NodeIds \ DOMAIN nodes, json \in NodeBodies :
        LET name == cleaned(json, "name")
            color == cleaned(json, "_color")
            out == node_put(id, json)
        IN  IF name_free(name) /\ fits_columns(name, color)
            THEN /\ out.response = Response(201, Graph)
                 /\ node_written(out, id, [name |-> name, color |-> color])
            ELSE /\ out.response.status = 501
                 /\ out.nodes = nodes
                 /\ out.edges = edges

\* a PUT created node MaxNodeId, named, beside an older named node, while
\* the sequence has handed out no id
C6_Witness ==
    /\ handler = "node_put"
    /\ response = Response(201, Graph)
    /\ node_id_seq = 1
    /\ DOMAIN nodes = NodeIds
    /\ \A i \in DOMAIN nodes : nodes[i].name # None

\* C8: a POST /node whose name is absent, or empty after sanitizing, is
\* never refused as a name conflict (400).
C8_Claim ==
    \A json \in NodeBodies :
        cleaned(json, "name") = None => node_post(json).response.status # 400

\* the name or color a row has after a PUT of the body to it
field_after(json, key, old) ==
    IF key \in DOMAIN json THEN cleaned(json, key) ELSE old

\* the body gives, as sid or tid, a boolean that is not (==) the stored end
bool_end(json, key, old) ==
    key \in DOMAIN json /\ json[key].t = "bool" /\ int_of(json[key]) # old

C9_Claim ==
    \A json \in EdgeBodies :
        (/\ "name" \in DOMAIN json
         /\ \E e \in DOMAIN edges : edges[e].name = json["name"]
         /\ {"sid", "tid"} \subseteq DOMAIN json
         /\ json["sid"].t = "int" /\ json["tid"].t = "int"
         /\ json["sid"].v \in DOMAIN nodes /\ json["tid"].v \in DOMAIN nodes
         /\ json["sid"] # json["tid"]) =>
            LET out == edge_post(json)
            IN  /\ out.response.status = 400
                /\ out.nodes = nodes
                /\ out.edges = edges

\* C10: PUT /edge/{id} for an id no stored edge has, with sid or tid missing
\* or not an integer, returns 400 and stores nothing.
C10_Claim ==
    \A id \in EdgeIds \ DOMAIN edges, json \in EdgeBodies :
        (\E k \in {"sid", "tid"} : k \notin DOMAIN json \/ json[k].t # "int") =>
            LET out == edge_put(id, json)
            IN  /\ out.response.status = 400
                /\ out.nodes = nodes
                /\ out.edges = edges

\* C11: a PUT /node/{id} or PUT /edge/{id} served again, with the same id and
\* the same body, on the database its first serving left, leaves the nodes
\* and the edges as the first serving left them.
C11_PutIdempotent ==
    /\ \A id \in NodeIds, json \in NodeBodies :
          LET once == node_put(id, json)
              twice == node_put_in(once, id, json)
          IN  twice.nodes = once.nodes /\ twice.edges = once.edges
    /\ \A id \in EdgeIds, json \in EdgeBodies :
          LET once == edge_put(id, json)
              twice == edge_put_in(once, id, json)
          IN  twice.nodes = once.nodes /\ twice.edges = once.edges

\* a PUT was served a second time: a PUT that updated an edge, and a body with
\* every field (a name and a color among them) that leaves the edge as it is
C11_Witness ==
    /\ handler = "edge_put"
    /\ response = Response(200, Graph)
    /\ \E id \in DOMAIN edges, json \in EdgeBodies :
          /\ DOMAIN json = {"sid", "tid", "name", "_color"}
          /\ edge_put(id, json) = returned(Response(200, Graph))

\* the outcome of every request: every route, with every id and every body
outcomes ==
    {graph}
        \cup {node_get(id) : id \in NodeIds}
        \cup {node_post(json) : json \in NodeBodies}
        \cup {node_put(id, json) : id \in NodeIds, json \in NodeBodies}
        \cup {node_delete(id) : id \in NodeIds}
        \cup {edge_get(id) : id \in EdgeIds}
        \cup {edge_post(json) : json \in EdgeBodies}
        \cup {edge_put(id, json) : id \in EdgeIds, json \in EdgeBodies}
        \cup {edge_delete(id) : id \in EdgeIds}

\* C12: a request that returns neither 200 nor 201 leaves the nodes and the
\* edges, which the next request reads, exactly as it found them.
C12_FailureWritesNothing ==
    \A out \in outcomes :
        out.response.status \notin {200, 201} =>
            out.nodes = nodes /\ out.edges = edges

\* a PUT of a node was refused by the unique index on name; both nodes and an
\* edge are stored
C12_Witness ==
    /\ handler = "node_put"
    /\ response = exception("node_name_unique")
    /\ DOMAIN nodes = NodeIds
    /\ edges # <<>>

\* C13: of POST /node requests served at the same time with the same name,
\* whatever the order of their statements, at most one returns 201, and no
\* two stored nodes ever hold the same name.
C13_OneNodePerName ==
    /\ \A i, j \in DOMAIN nodes :
          (i # j /\ nodes[i].name # None) => nodes[i].name # nodes[j].name
    /\ \A r, q \in RequestIds :
          (/\ r # q
           /\ node_posts[r].status = 201
           /\ node_posts[q].status = 201) =>
              cleaned(node_posts[r].json, "name") # cleaned(node_posts[q].json, "name")

\* two requests with the same name both found no node with it; the INSERT of
\* one was committed, the INSERT of the other then failed
C13_Witness ==
    \E r, q \in RequestIds :
        /\ node_posts[r].json = node_posts[q].json
        /\ node_posts[r].status = 201
        /\ node_posts[q].status = 501
        /\ node_posts[q].id = 0
        /\ \A i \in DOMAIN nodes : i = node_posts[r].id

====
